---- MODULE Spec2Model ----
(***************************************************************************)
(* Fixed-window rate limiter (RateLimitGuard) over the cache adapter       *)
(* (RedisService) of the NestJS CRUD application, with the exception       *)
(* filter that turns a denial into the HTTP response.                      *)
(*                                                                         *)
(* A request is a slot that walks through canActivate.  JavaScript runs   *)
(* the code between two awaits to completion, so one action is one such   *)
(* stretch of code, or the effect of one cache operation at the store:    *)
(*   Enter      lines 52-73 and the call of get on line 77                 *)
(*   GuardGet   the store's answer to the get of line 77                   *)
(*   Decide     lines 79-96: the comparison, the 429, or the call of incr  *)
(*   IncrGet    RedisService.incr line 63-64                               *)
(*   IncrSet    RedisService.incr line 65 (set, lines 28-30) and the       *)
(*              guard's lines 98-107                                       *)
(*   PassOn, Reject  the framework's use of the result (handler, filter)   *)
(*   Tick       time passes; the store drops the entries whose TTL is over *)
(* Strings built by template literals are modelled as tuples of their      *)
(* parts: `rate_limit:${identifier}:${windowStart}` is                     *)
(* <<"rate_limit", identifier, windowStart>>.  windowStart is a decimal    *)
(* number, so it is the text after the last colon and the tuple is the     *)
(* same key exactly when the string is.                                    *)
(***************************************************************************)
EXTENDS Integers, Sequences, FiniteSets, TLC

\* ------------------------------------------------------------------ bounds
\* Requests that may be begun in one behaviour.
MaxRequests == 7
\* Request slots (requests that can be in flight together) of the concurrent
\* specification.
NumSlots == 2
\* Requests that may be begun in one behaviour of the concurrent specification.
MaxConcRequests == 8
\* Controller requests that may be begun in one behaviour, with a store that
\* works and with a store that can fail.
MaxJobs == 4
MaxFlakyJobs == 3
\* Controller requests that may be begun in one behaviour of the concurrent
\* specification, with a store that works and with a store that can fail.
MaxConcJobs == 3
MaxConcFlakyJobs == 2
\* Verification tokens that may be issued in one behaviour, and registrations,
\* resends and verifyEmail calls that may be begun.
MaxTokens == 3
MaxVerifyOps == 6
\* Payment intents and Stripe subscriptions of one behaviour, and payment
\* intents, subscriptions and webhook deliveries that may be begun.
MaxIntents == 2
MaxSubs == 2
MaxBillingOps == 5
\* Product.stockQuantity at the start.
InitialStock == 5
\* Requests of the run of one sender across a window boundary.
MaxBurstRequests == 12
\* Requests of the runs of SpecBurst in which the guard does not limit.
MaxUnlimitedRequests == 2
\* Requests of a run of a guarded route with the mutating routes (the login
\* route, max 5, comes to a denial).
MaxGuardedRequests == 6

\* ------------------------------------------------------- program constants
\* rate-limit.guard.ts:82 and :96, redis.service.ts:29: milliseconds per second.
MsPerSec == 1000
\* redis.service.ts:14: the default TTL in seconds.
DefaultTTL == 300
\* HttpStatus.TOO_MANY_REQUESTS, rate-limit.guard.ts:91.
TooManyRequests == 429
\* 24 * 60 * 60 * 1000: the life of a verification token, milliseconds
TokenLifeMs == 86400000
\* one hour, milliseconds
HourMs == 3600000

\* Math.ceil(a / b) for b > 0, also for a < 0 (Math.ceil(-0.5) is -0, i.e. 0).
Ceil(a, b) == -((-a) \div b)

\* Math.max
Max(a, b) == IF a >= b THEN a ELSE b

\* ------------------------------------------------------------------ routes
\* The routes that carry @UseGuards(RateLimitGuard), and one guarded route
\* without @RateLimit metadata (the guard's "no rate limiting configured").
Routes == {"login", "verifyEmail", "resendVerification", "createUser", "plain"}

NoPolicy == [windowMs |-> 0, max |-> 0, message |-> "", configured |-> FALSE]

\* @RateLimit of AuthController.login
LoginPolicy ==
  [windowMs |-> 15 * 60 * 1000, max |-> 5,
   message |-> "Too many login attempts. Please try again later.",
   configured |-> TRUE]

\* @RateLimit of AuthController.verifyEmail
VerifyEmailPolicy ==
  [windowMs |-> 15 * 60 * 1000, max |-> 10,
   message |-> "Too many verification attempts. Please try again later.",
   configured |-> TRUE]

\* @RateLimit of AuthController.resendVerificationEmail
ResendVerificationPolicy ==
  [windowMs |-> 60 * 60 * 1000, max |-> 5,
   message |-> "Too many resend attempts. Please try again later.",
   configured |-> TRUE]

\* @RateLimit of UserController.create
CreateUserPolicy ==
  [windowMs |-> 60 * 60 * 1000, max |-> 10,
   message |-> "Too many registration attempts. Please try again later.",
   configured |-> TRUE]

\* The RateLimitOptions the reflector finds for a route
\* (reflector.getAllAndOverride, lines 61-68).
Policy(route) ==
  CASE route = "login" -> LoginPolicy
    [] route = "verifyEmail" -> VerifyEmailPolicy
    [] route = "resendVerification" -> ResendVerificationPolicy
    [] route = "createUser" -> CreateUserPolicy
    [] OTHER -> NoPolicy

\* ---------------------------------------------------------------- requests
\* What getIdentifier reads of a request: request.user?.userId (user ids are
\* generated from 1 on, so an authenticated request has userId >= 1), the
\* x-forwarded-for header (the list of its comma separated entries, <<>> when
\* the header is absent) and request.socket.remoteAddress ("" when absent).
\* who names the sender: the user id, or for an unauthenticated request the
\* client address.
Shapes ==
  { [who |-> "user1", authenticated |-> TRUE,  userId |-> 1, forwarded |-> <<>>,         remote |-> "A"],
    [who |-> "user2", authenticated |-> TRUE,  userId |-> 2, forwarded |-> <<>>,         remote |-> "A"],
    [who |-> "ipA",   authenticated |-> FALSE, userId |-> 0, forwarded |-> <<>>,         remote |-> "A"],
    [who |-> "ipB",   authenticated |-> FALSE, userId |-> 0, forwarded |-> <<"B", "P">>, remote |-> "P"] }

\* the identifier taken from the socket address alone
getIdentifierByRemote(request) == <<"ip", request.remote>>

\* RateLimitGuard.getIdentifier
getIdentifier(request) ==
  IF request.authenticated /\ request.userId # 0
    THEN <<"user", request.userId>>
    ELSE LET ip == IF request.forwarded # <<>>
                     THEN Head(request.forwarded)
                     ELSE IF request.remote # "" THEN request.remote ELSE "unknown"
         IN  <<"ip", ip>>

\* const windowStart = Math.floor(Date.now() / rateLimitOptions.windowMs)
WindowStart(t, windowMs) == t \div windowMs

\* the key without the window index
RateKeyNoWindow(identifier, windowStart) == <<"rate_limit", identifier>>

\* const key = `rate_limit:${identifier}:${windowStart}`
RateKey(identifier, windowStart) == <<"rate_limit", identifier, windowStart>>

\* ---------------------------------------------------------------- the clock
\* The instants at which something happens (epoch milliseconds): the start of
\* a 15 minute and one hour window, the last millisecond of the 15 minute
\* window, the start of the next one, and the start of the next one hour
\* window.
\* The epoch is 500 hours before the first instant (T0 is a multiple of both
\* window sizes).  Near the epoch itself the window indexes of the 15 minute and
\* of the one hour routes coincide, which no running system sees.
T0 == 500 * 60 * 60 * 1000

TimePoints == {T0, T0 + 899999, T0 + 900000, T0 + 3600000}

\* ------------------------------------------------------------------- state
Slots == 1 .. NumSlots

VARIABLES
  now,       \* Date.now() and the store's clock, epoch milliseconds
  nodeEnv,   \* process.env.NODE_ENV
  cache,     \* the store: key -> [val, exp], exp the instant the entry expires
  slot,      \* slot -> the request in it and its position in canActivate
  issued,    \* history: requests begun
  faulted,   \* history: some cache operation has raised an error
  clients,   \* the <<request shape, route>> pairs that send requests
  flaky,     \* whether the store can fail in this run
  budget,    \* requests that may still be begun
  hist,      \* history: <<who, route, windowStart>> -> requests, allowed, peak
  db,        \* the persistence layer: resource type -> id -> the record's content
  job,       \* slot -> the controller request in it and its position
  lastMut,   \* history: <<type, id>> -> the last handler that ran for the record
  userRepo,  \* the users table: id -> the verification columns of the row
  tokenLog,  \* history: the verification tokens issued, oldest first
  vcall,     \* the verifyEmail call in flight and its position
  paymentModel,       \* payments: payment intent -> the Payment document
  stockQuantity,      \* products: Product.stockQuantity of the product on sale
  subscriptionModel,  \* subscriptions: Stripe subscription -> the document
  userSub,            \* users: id -> Stripe customer and subscription columns
  stripeSubs,         \* Stripe: the subscriptions created, by owner, oldest first
  delivered,          \* history: the last webhook event and the state it met
  subCall             \* history: the last createSubscription call and its result

\* The variables of the rate limiter alone, and those of the resource
\* controllers alone; now, cache, faulted, flaky and budget are shared (one
\* clock, one store).
limiterVars == <<nodeEnv, slot, issued, clients, hist>>
crudVars == <<db, job, lastMut>>
verifyVars == <<userRepo, tokenLog, vcall>>
\* What the rate limiter leaves alone, and what the controllers leave alone.
billingVars == <<paymentModel, stockQuantity, subscriptionModel, userSub, stripeSubs,
                 delivered, subCall>>
appVars == <<crudVars, verifyVars, billingVars>>
outsideCrud == <<limiterVars, verifyVars, billingVars>>
outsideVerify == <<limiterVars, crudVars, billingVars>>
outsideBilling == <<limiterVars, crudVars, verifyVars>>

vars == <<now, nodeEnv, cache, slot, issued, faulted, clients, flaky, budget, hist,
          crudVars, verifyVars, billingVars>>

EmptyMap == [k \in {} |-> 0]

NoHeaders == [set |-> FALSE, limit |-> 0, remaining |-> 0, reset |-> 0]
NoException == [thrown |-> FALSE, status |-> 0, message |-> "", error |-> "", retryAfter |-> 0]
NoKey == <<"rate_limit", <<"ip", "unknown">>, 0>>

NoResponse == [kind |-> "none", status |-> 0, body |-> [success |-> TRUE]]

Idle ==
  [pc |-> "idle", shape |-> CHOOSE sh \in Shapes : sh.who = "ipA", route |-> "plain",
   windowStart |-> 0, key |-> NoKey, currentCount |-> 0, current |-> 0,
   stored |-> 0, outcome |-> "none", cacheFailed |-> FALSE, cacheOps |-> 0,
   headers |-> NoHeaders, exception |-> NoException, response |-> NoResponse,
   ordinal |-> 0, prevRemaining |-> -1,
   afterDenial |-> FALSE, exp |-> 0, before |-> EmptyMap, at |-> 0]

\* The resource types with a controller, and the ids a run uses.
Types == {"products", "users"}
Ids == {"1", "2"}

\* No record persisted: content 0 stands for "no such record" (findById gives
\* null, userRepo.findOne gives null).
NoRecords == [type \in Types |-> [id \in Ids |-> 0]]

\* history: no handler has run for the record
NoMut == [op |-> "none", hadKey |-> FALSE]

NoJob ==
  [pc |-> "idle", op |-> "none", type |-> "products", id |-> "1", data |-> 0,
   outcome |-> "none", handler |-> FALSE, dbRead |-> FALSE, getFailed |-> FALSE,
   delFailed |-> FALSE, written |-> FALSE, hadKey |-> FALSE, after |-> NoMut,
   next |-> FALSE, setAt |-> 0, doneAt |-> 0, dels |-> 0]

\* The users of a run of the e-mail verification.
UserIds == {1, 2}

\* No row: exists is FALSE; token 0 is NULL, expires 0 is NULL.
NoUser == [exists |-> FALSE, isEmailVerified |-> FALSE, token |-> 0, expires |-> 0]

NoCall ==
  [pc |-> "idle", token |-> 0, user |-> 0, result |-> "none", message |-> "",
   newest |-> FALSE, older |-> FALSE, late |-> FALSE, wasVerified |-> FALSE,
   wrote |-> FALSE]

\* No user is registered and no verifyEmail call is in flight.
VerifyIdle ==
  /\ userRepo = [u \in UserIds |-> NoUser]
  /\ tokenLog = <<>>
  /\ vcall = NoCall

\* Payment intents and Stripe subscriptions are numbered in the order of their
\* creation.
Intents == 1 .. MaxIntents
SubIds == 1 .. MaxSubs

\* No Payment document; quantity 0 is a metadata without a quantity.
\* requested is dto.quantity of createPaymentIntent, intent the status of the
\* payment intent at Stripe, reduced (history) the stock taken for the payment.
NoPayment ==
  [exists |-> FALSE, status |-> "none", quantity |-> 0, requested |-> 0,
   intent |-> "none", reduced |-> 0]

\* No Subscription document.
NoSubscription == [exists |-> FALSE, userId |-> 0, status |-> "none"]

\* history: no webhook has been delivered, no createSubscription called
NoView == [payments |-> <<>>, subs |-> <<>>, users |-> <<>>, stock |-> 0]
NoDelivery == [event |-> <<"none", 0, "">>, dup |-> FALSE, before |-> NoView]
NoSubCall ==
  [user |-> 0, result |-> "none", message |-> "", hadActive |-> FALSE,
   changed |-> FALSE]

\* User 1 has a Stripe customer (UserService.create got one), user 2 has none
\* (the Stripe call of create failed); nobody has a subscription or a payment.
BillingIdle ==
  /\ paymentModel = [pi \in Intents |-> NoPayment]
  /\ stockQuantity = InitialStock
  /\ subscriptionModel = [sub \in SubIds |-> NoSubscription]
  /\ userSub = [u \in UserIds |->
                  [stripeCustomerId |-> (u = 1), currentSubscriptionId |-> 0,
                   subscriptionStatus |-> "none"]]
  /\ stripeSubs = <<>>
  /\ delivered = NoDelivery
  /\ subCall = NoSubCall

Shape(who) == CHOOSE sh \in Shapes : sh.who = who

\* The senders of one run.  One sender: every route, and every kind of request
\* on the login route.  Two senders: two identities on one route, and one
\* identity on two routes.
Single == { {<<Shape("ipA"), route>>} : route \in Routes }
            \cup { {<<sh, "login">>} : sh \in Shapes }

Pairs ==
  { {<<Shape("ipA"), "login">>, <<Shape("ipB"), "login">>},
    {<<Shape("user1"), "login">>, <<Shape("user2"), "login">>},
    {<<Shape("user1"), "resendVerification">>, <<Shape("ipA"), "resendVerification">>},
    {<<Shape("ipA"), "login">>, <<Shape("ipA"), "verifyEmail">>},
    {<<Shape("ipB"), "resendVerification">>, <<Shape("ipB"), "createUser">>},
    {<<Shape("user1"), "login">>, <<Shape("user1"), "resendVerification">>} }

\* NODE_ENV, the store's health and the senders are fixed for a run; a store
\* that can fail is run with one sender.
Environments ==
  [nodeEnv : {"production"}, flaky : {FALSE}, clients : Single \cup Pairs]
    \cup [nodeEnv : {"production"}, flaky : {TRUE}, clients : Single]
    \cup [nodeEnv : {"test"}, flaky : {FALSE}, clients : Single]

InitWith(env, requests) ==
  /\ now = T0
  /\ nodeEnv = env.nodeEnv
  /\ flaky = env.flaky
  /\ clients = env.clients
  /\ budget = requests
  /\ cache = EmptyMap
  /\ slot = [s \in Slots |-> Idle]
  /\ issued = 0
  /\ faulted = FALSE
  /\ hist = EmptyMap
  /\ db = NoRecords
  /\ job = [j \in Slots |-> NoJob]
  /\ lastMut = EmptyMap
  /\ VerifyIdle
  /\ BillingIdle

Init == \E env \in Environments : InitWith(env, MaxRequests)

\* ------------------------------------------------------- the cache adapter
\* The entries the store still holds at instant t: an entry is gone once the
\* clock is past its expiry (Keyv's get drops an entry when Date.now() >
\* expires, and Redis a key whose PX time is over).
Live(c, t) == [k \in {x \in DOMAIN c : c[x].exp >= t} |-> c[k]]

\* RedisService.get followed by `|| 0`: null (no entry) and 0 both read as 0.
CountOf(c, key) == IF key \in DOMAIN c THEN c[key].val ELSE 0

\* RedisService.set: cacheManager.set(key, value, (ttl || this.defaultTTL) * 1000)
RedisSet(c, key, value, ttl, t) ==
  LET seconds == IF ttl # 0 THEN ttl ELSE DefaultTTL
      entry   == [val |-> value, exp |-> t + seconds * MsPerSec]
  IN  [k \in DOMAIN c \cup {key} |-> IF k = key THEN entry ELSE c[k]]

\* RedisService.incr: const newValue = current + 1
NewValue(current) == current + 1

\* ------------------------------------------------------------- the guard
\* the bypass left out
BypassNever(env) == FALSE

\* if (process.env.NODE_ENV === 'test') return true
Bypass(env) == env = "test"

\* the comparison off by one
OverLimitOffByOne(currentCount, max) == currentCount > max

\* if (currentCount >= rateLimitOptions.max)
OverLimit(currentCount, max) == currentCount >= max

\* const resetTime = (windowStart + 1) * rateLimitOptions.windowMs
ResetTime(windowStart, windowMs) == (windowStart + 1) * windowMs

\* const retryAfter = Math.ceil((resetTime - Date.now()) / 1000)
RetryAfter(windowStart, windowMs, t) ==
  Ceil(ResetTime(windowStart, windowMs) - t, MsPerSec)

\* a TTL one second short of the window
TtlSecondsShort(windowMs) == Ceil(windowMs, MsPerSec) - 1

\* Math.ceil(rateLimitOptions.windowMs / 1000), the TTL handed to incr
TtlSeconds(windowMs) == Ceil(windowMs, MsPerSec)

\* const remaining = Math.max(0, rateLimitOptions.max - currentCount - 1)
Remaining(max, currentCount) == Max(0, max - currentCount - 1)

\* The HttpException of lines 84-92.
RateLimitException(policy, retryAfter) ==
  [thrown |-> TRUE, status |-> TooManyRequests,
   message |-> IF policy.message # "" THEN policy.message
               ELSE "Rate limit exceeded. Too many requests.",
   error |-> "Rate Limit Exceeded", retryAfter |-> retryAfter]

\* The headers of lines 103-105.
RateLimitHeaders(policy, currentCount, windowStart) ==
  [set |-> TRUE, limit |-> policy.max,
   remaining |-> Remaining(policy.max, currentCount),
   reset |-> Ceil(ResetTime(windowStart, policy.windowMs), MsPerSec)]

\* a catch block that passes the error on
OnCacheErrorRethrow(r) == [r EXCEPT !.pc = "done", !.outcome = "error"]

\* The catch block, lines 108-115, for an error that is no HttpException: the
\* request is let through.
OnCacheError(r) == [r EXCEPT !.pc = "done", !.outcome = "allow"]

\* ----------------------------------------------------------- the history
Triple(r) == <<r.shape.who, r.route, r.windowStart>>

\* n requests begun, allowed and denied of them, the largest number in flight
\* together, the X-RateLimit-Remaining of the last allowed one (-1: none), and
\* the instants at which the allowed requests read the clock, with the number
\* of requests that read it at each
NoHist ==
  [n |-> 0, allowed |-> 0, denied |-> 0, peak |-> 0, lastRemaining |-> -1,
   at |-> EmptyMap]

\* one more in the bag b at instant t
BagPut(b, t) == [k \in DOMAIN b \cup {t} |-> IF k \in DOMAIN b /\ k # t THEN b[k]
                                            ELSE IF k \in DOMAIN b THEN b[k] + 1 ELSE 1]
HistOf(h, t) == IF t \in DOMAIN h THEN h[t] ELSE NoHist
HistPut(h, t, v) == [k \in DOMAIN h \cup {t} |-> IF k = t THEN v ELSE h[k]]

InFlightPcs == {"get", "got", "incrGet", "incrSet"}
InFlight(sl, t) == Cardinality({x \in Slots : sl[x].pc \in InFlightPcs /\ Triple(sl[x]) = t})

\* The history after request r has come to its result.
Record(h, r) ==
  IF ~Policy(r.route).configured THEN h
  ELSE LET old == HistOf(h, Triple(r))
       IN  HistPut(h, Triple(r),
             IF r.outcome = "allow"
               THEN [old EXCEPT !.allowed = @ + 1,
                                !.at = BagPut(@, r.at),
                                !.lastRemaining = IF r.headers.set
                                                    THEN r.headers.remaining ELSE @]
               ELSE [old EXCEPT !.denied = @ + 1])

\* ------------------------------------------------- the exception filter
\* buildErrorResponse(message, statusCode, error): success, timestamp,
\* statusCode and message always, error when it is a non-empty string (the
\* timestamp is left out of the model; no details are passed).
buildErrorResponse(message, statusCode, error) ==
  IF error # ""
    THEN [success |-> FALSE, statusCode |-> statusCode, message |-> message, error |-> error]
    ELSE [success |-> FALSE, statusCode |-> statusCode, message |-> message]

\* HttpExceptionFilter.catch for the guard's HttpException: getResponse() is the
\* object of lines 85-90, which has a message and a string error.
FilterCatch(exception) ==
  [kind |-> "error", status |-> exception.status,
   body |-> buildErrorResponse(exception.message, exception.status, exception.error)]

\* ---------------------------------------------------------------- actions
Begin(s) ==
  /\ slot[s].pc \in {"idle", "answered"}
  /\ budget > 0
  /\ budget' = budget - 1
  /\ issued' = issued + 1

\* history of a request entering: one more request of its triple, and the
\* largest number of them in flight together
Entered(h, sl, t) ==
  LET old == HistOf(h, t)
  IN  HistPut(h, t, [old EXCEPT !.n = @ + 1, !.peak = Max(@, InFlight(sl, t))])

\* canActivate lines 52-56: the test environment lets the request through.
\* (windowStart is filled in for the history only; the code has not read the
\* clock.)
EnterBypass(s, sh, route) ==
  /\ Begin(s)
  /\ Bypass(nodeEnv)
  /\ LET w == IF Policy(route).configured
                THEN WindowStart(now, Policy(route).windowMs) ELSE 0
         r == [Idle EXCEPT !.pc = "done", !.shape = sh, !.route = route,
                           !.windowStart = w, !.outcome = "allow", !.at = now,
                           !.ordinal = HistOf(hist, <<sh.who, route, w>>).n + 1]
         sl == [slot EXCEPT ![s] = r]
     IN  /\ slot' = sl
         /\ hist' = IF Policy(route).configured
                      THEN Record(Entered(hist, sl, Triple(r)), r) ELSE hist
  /\ UNCHANGED <<now, nodeEnv, cache, faulted, clients, flaky>>
  /\ UNCHANGED appVars

\* canActivate lines 58-68: no @RateLimit metadata, the request is let through.
EnterNoPolicy(s, sh, route) ==
  /\ Begin(s)
  /\ ~Bypass(nodeEnv)
  /\ ~Policy(route).configured
  /\ slot' = [slot EXCEPT ![s] =
                [Idle EXCEPT !.pc = "done", !.shape = sh, !.route = route,
                             !.outcome = "allow"]]
  /\ UNCHANGED <<now, nodeEnv, cache, faulted, clients, flaky, hist>>
  /\ UNCHANGED appVars

\* canActivate lines 58-77: identifier, window index (first reading of the
\* clock), key, and the call of redisService.get.
Enter(s, sh, route) ==
  /\ Begin(s)
  /\ ~Bypass(nodeEnv)
  /\ Policy(route).configured
  /\ LET w == WindowStart(now, Policy(route).windowMs)
         r == [Idle EXCEPT !.pc = "get", !.shape = sh, !.route = route,
                           !.windowStart = w,
                           !.key = RateKey(getIdentifier(sh), w),
                           !.ordinal = HistOf(hist, <<sh.who, route, w>>).n + 1,
                           !.afterDenial = HistOf(hist, <<sh.who, route, w>>).denied > 0,
                           !.before = cache, !.at = now]
         sl == [slot EXCEPT ![s] = r]
     IN  /\ slot' = sl
         /\ hist' = Entered(hist, sl, Triple(r))
  /\ UNCHANGED <<now, nodeEnv, cache, faulted, clients, flaky>>
  /\ UNCHANGED appVars

\* The store answers the get of line 77: currentCount.
GuardGet(s) ==
  /\ slot[s].pc = "get"
  /\ slot' = [slot EXCEPT ![s] =
                [@ EXCEPT !.pc = "got", !.cacheOps = @ + 1,
                          !.currentCount = CountOf(cache, slot[s].key)]]
  /\ UNCHANGED <<now, nodeEnv, cache, issued, faulted, clients, flaky, budget, hist>>
  /\ UNCHANGED appVars

\* a denial that counts: the counter is incremented before the throw
AfterDenyCounted(c, key, windowMs, t) ==
  RedisSet(c, key, NewValue(CountOf(c, key)), TtlSeconds(windowMs), t)

\* The store after lines 79-93: between the get of line 77 and the throw there
\* is no cache call.
AfterDeny(c, key, windowMs, t) == c

\* Lines 79-93: the limit is reached; second reading of the clock, and the 429.
Deny(s) ==
  LET r == slot[s]
      p == Policy(r.route)
  IN  /\ r.pc = "got"
      /\ OverLimit(r.currentCount, p.max)
      /\ LET d == [r EXCEPT !.pc = "done", !.outcome = "deny",
                            !.exception = RateLimitException(p,
                                 RetryAfter(r.windowStart, p.windowMs, now))]
         IN  /\ slot' = [slot EXCEPT ![s] = d]
             /\ hist' = Record(hist, d)
      /\ cache' = AfterDeny(cache, r.key, p.windowMs, now)
      /\ UNCHANGED <<now, nodeEnv, issued, faulted, clients, flaky, budget>>
      /\ UNCHANGED appVars

\* Lines 79 and 96: below the limit, redisService.incr is called.
Proceed(s) ==
  LET r == slot[s]
  IN  /\ r.pc = "got"
      /\ ~OverLimit(r.currentCount, Policy(r.route).max)
      /\ slot' = [slot EXCEPT ![s] = [r EXCEPT !.pc = "incrGet", !.before = EmptyMap]]
      /\ UNCHANGED <<now, nodeEnv, cache, issued, faulted, clients, flaky, budget, hist>>
      /\ UNCHANGED appVars

\* RedisService.incr line 63: the store answers incr's own get.
IncrGet(s) ==
  /\ slot[s].pc = "incrGet"
  /\ slot' = [slot EXCEPT ![s] =
                [@ EXCEPT !.pc = "incrSet", !.cacheOps = @ + 1,
                          !.current = CountOf(cache, slot[s].key)]]
  /\ UNCHANGED <<now, nodeEnv, cache, issued, faulted, clients, flaky, budget, hist>>
  /\ UNCHANGED appVars

\* RedisService.incr lines 64-66: the store takes the set of current + 1 with
\* the TTL; then canActivate lines 98-107: the headers, and true.
IncrSet(s) ==
  LET r == slot[s]
      p == Policy(r.route)
      c == RedisSet(cache, r.key, NewValue(r.current), TtlSeconds(p.windowMs), now)
      d == [r EXCEPT !.pc = "done", !.outcome = "allow", !.cacheOps = @ + 1,
                     !.stored = c[r.key].val,
                     !.exp = c[r.key].exp,
                     !.prevRemaining = HistOf(hist, Triple(r)).lastRemaining,
                     !.headers = RateLimitHeaders(p, r.currentCount, r.windowStart)]
  IN  /\ r.pc = "incrSet"
      /\ cache' = c
      /\ slot' = [slot EXCEPT ![s] = d]
      /\ hist' = Record(hist, d)
      /\ UNCHANGED <<now, nodeEnv, issued, faulted, clients, flaky, budget>>
      /\ UNCHANGED appVars

\* The cache operation the request is waiting for raises an error (the store
\* is unreachable, the call times out): the catch block of lines 108-115.  A
\* set that raises may or may not have been applied by the store.
CacheError(s) ==
  LET r == slot[s]
      p == Policy(r.route)
      d == OnCacheError([r EXCEPT !.cacheOps = @ + 1, !.cacheFailed = TRUE])
  IN  /\ flaky
      /\ r.pc \in {"get", "incrGet", "incrSet"}
      /\ slot' = [slot EXCEPT ![s] = d]
      /\ faulted' = TRUE
      /\ hist' = Record(hist, d)
      /\ \/ cache' = cache
         \/ /\ r.pc = "incrSet"
            /\ cache' = RedisSet(cache, r.key, NewValue(r.current),
                                 TtlSeconds(p.windowMs), now)
      /\ UNCHANGED <<now, nodeEnv, issued, clients, flaky, budget>>
      /\ UNCHANGED appVars

\* canActivate has returned true: the framework runs the route's handler.
PassOn(s) ==
  /\ slot[s].pc = "done"
  /\ slot[s].outcome = "allow"
  /\ slot' = [slot EXCEPT ![s] =
                [@ EXCEPT !.pc = "answered",
                          !.response = [kind |-> "handler", status |-> 0,
                                        body |-> [success |-> TRUE]]]]
  /\ UNCHANGED <<now, nodeEnv, cache, issued, faulted, clients, flaky, budget, hist>>
  /\ UNCHANGED appVars

\* canActivate has thrown: the controller's HttpExceptionFilter answers.
Reject(s) ==
  /\ slot[s].pc = "done"
  /\ slot[s].outcome = "deny"
  /\ slot' = [slot EXCEPT ![s] =
                [@ EXCEPT !.pc = "answered",
                          !.response = FilterCatch(slot[s].exception)]]
  /\ UNCHANGED <<now, nodeEnv, cache, issued, faulted, clients, flaky, budget, hist>>
  /\ UNCHANGED appVars

\* Time passes; the store drops the entries whose TTL has run out.
Tick ==
  /\ \E t \in TimePoints :
       /\ t > now
       /\ now' = t
       /\ cache' = Live(cache, t)
  /\ UNCHANGED <<nodeEnv, slot, issued, faulted, clients, flaky, budget, hist>>
  /\ UNCHANGED appVars

Step(s) ==
  \/ \E c \in clients : EnterBypass(s, c[1], c[2])
  \/ \E c \in clients : EnterNoPolicy(s, c[1], c[2])
  \/ \E c \in clients : Enter(s, c[1], c[2])
  \/ GuardGet(s)
  \/ Deny(s)
  \/ Proceed(s)
  \/ IncrGet(s)
  \/ IncrSet(s)
  \/ CacheError(s)
  \/ PassOn(s)
  \/ Reject(s)

\* Requests processed one at a time: a request begins when the one before it
\* has been answered.
Next == Tick \/ Step(1)

Spec == Init /\ [][Next]_vars

\* Requests overlap inside one window: up to NumSlots of them are in flight
\* together, the store works and the clock stays in the window.
NextConc == \E s \in Slots : Step(s)

ConcEnvironments ==
  [nodeEnv : {"production"}, flaky : {FALSE},
   clients : { {<<Shape("ipA"), "login">>},
               {<<Shape("user1"), "resendVerification">>},
               {<<Shape("ipB"), "plain">>} }]
    \cup [nodeEnv : {"production"}, flaky : {TRUE}, clients : { {<<Shape("ipA"), "login">>} }]
    \cup [nodeEnv : {"test"}, flaky : {FALSE}, clients : { {<<Shape("ipA"), "login">>} }]

InitConc == \E env \in ConcEnvironments : InitWith(env, MaxConcRequests)

SpecConc == InitConc /\ [][NextConc]_vars

\* =================================================================== claims
\* The request of slot s has its result and the guard limited it: its route has
\* a policy, the process does not run in the test environment and no cache
\* operation of the run has failed.
Limited(r) ==
  /\ r.pc = "done"
  /\ Policy(r.route).configured
  /\ nodeEnv # "test"
  /\ ~faulted

\* The request was processed inside the window it began in.
InWindow(r) == WindowStart(now, Policy(r.route).windowMs) = r.windowStart

\* Every request of the sender in the request's window index went to its route.
SoloOnRoute(r) ==
  \A t \in DOMAIN hist :
    (t[1] = r.shape.who /\ t[3] = r.windowStart) => t[2] = r.route

\* C1: requests of one identity on one route, one at a time inside one window,
\* starting from no counter: each of the first max requests is allowed, and
\* request number max + 1 is rejected with HTTP 429.
C1_WindowBoundary ==
  \A s \in Slots :
    LET r == slot[s]
        N == Policy(r.route).max
    IN  (Limited(r) /\ InWindow(r) /\ SoloOnRoute(r)) =>
          /\ r.ordinal <= N => r.outcome = "allow"
          /\ r.ordinal = N + 1 =>
               /\ r.outcome = "deny"
               /\ r.exception.thrown
               /\ r.exception.status = 429

C1_Witness ==
  \E s \in Slots :
    LET r == slot[s]
    IN  /\ Limited(r) /\ InWindow(r) /\ SoloOnRoute(r)
        /\ r.ordinal = Policy(r.route).max + 1
        /\ r.outcome = "deny"
        /\ HistOf(hist, Triple(r)).allowed = Policy(r.route).max

\* The requests of the sender of r that were allowed in r's window index, on
\* whatever route.
OwnAllowed(r) ==
  LET RECURSIVE Sum(_)
      Sum(rs) == IF rs = {} THEN 0
                 ELSE LET x == CHOOSE y \in rs : TRUE
                      IN  HistOf(hist, <<r.shape.who, x, r.windowStart>>).allowed
                            + Sum(rs \ {x})
  IN  Sum(Routes)

\* Some other sender has been denied on r's route in r's window index.
OtherSaturated(r) ==
  \E t \in DOMAIN hist :
    /\ t[1] # r.shape.who
    /\ t[2] = r.route
    /\ t[3] = r.windowStart
    /\ hist[t].denied > 0

\* C2: distinct identities never share a counter.  Whatever other identities
\* have sent, a request is denied only when its own sender's allowed requests
\* of the window have reached max, and an allowed request stores, and reports
\* in X-RateLimit-Remaining, the count of its own sender's requests alone.
C2_IdentityIsolation ==
  \A s \in Slots :
    LET r == slot[s]
        N == Policy(r.route).max
    IN  (Limited(r) /\ InWindow(r)) =>
          /\ r.outcome = "deny" => OwnAllowed(r) >= N
          /\ r.outcome = "allow" =>
               /\ r.stored = OwnAllowed(r)
               /\ r.headers.set
               /\ r.headers.remaining = Max(0, N - OwnAllowed(r))

C2_Witness ==
  \E s \in Slots :
    LET r == slot[s]
    IN  /\ Limited(r) /\ InWindow(r)
        /\ OtherSaturated(r)
        /\ r.outcome = "allow"
        /\ r.ordinal = 1
        /\ r.headers.remaining = Policy(r.route).max - 1

\* The request is the first one of its sender in its window index.
FirstInWindow(r) ==
  /\ r.ordinal = 1
  /\ \A t \in DOMAIN hist :
       (t[1] = r.shape.who /\ t[3] = r.windowStart) => t = Triple(r)

\* The sender of r was denied on r's route in an earlier window index.
SaturatedBefore(r) ==
  \E t \in DOMAIN hist :
    /\ t[1] = r.shape.who
    /\ t[2] = r.route
    /\ t[3] < r.windowStart
    /\ hist[t].denied > 0

\* C3: after an identity was denied in window w, its first request in a later
\* window w' is allowed and the counter of (identity, w') is 1 right after it.
C3_WindowReset ==
  \A s \in Slots :
    LET r == slot[s]
    IN  (Limited(r) /\ FirstInWindow(r) /\ SaturatedBefore(r)) =>
          /\ r.outcome = "allow"
          /\ r.stored = 1
          /\ r.key \in DOMAIN cache => cache[r.key].val = 1

C3_Witness ==
  \E s \in Slots :
    LET r == slot[s]
    IN  /\ Limited(r) /\ FirstInWindow(r) /\ SaturatedBefore(r)
        /\ r.outcome = "allow"
        /\ r.key \in DOMAIN cache
        /\ cache[r.key].val = 1

\* C4: a cache operation of the guard that raises an error lets the request
\* through; the only exception that leaves the guard is the 429 of a request
\* that read a count at or over the limit.
C4_FailOpen ==
  \A s \in Slots :
    LET r == slot[s]
    IN  r.pc \in {"done", "answered"} =>
          /\ r.cacheFailed => (r.outcome = "allow" /\ ~r.exception.thrown)
          /\ r.outcome # "allow" =>
               /\ r.outcome = "deny"
               /\ r.exception.status = 429
               /\ ~r.cacheFailed
               /\ r.currentCount >= Policy(r.route).max

C4_Witness ==
  \E s \in Slots :
    LET r == slot[s]
    IN  /\ r.pc = "done"
        /\ r.cacheFailed
        /\ r.cacheOps = 3
        /\ r.outcome = "allow"

\* C5: in the test environment every request is allowed, however many were
\* made in the window, and the guard neither reads nor writes the cache.
C5_Bypass ==
  nodeEnv = "test" =>
    /\ cache = EmptyMap
    /\ \A s \in Slots :
         slot[s].pc # "idle" =>
           /\ slot[s].outcome = "allow"
           /\ ~slot[s].exception.thrown
           /\ slot[s].cacheOps = 0

C5_Witness ==
  \E s \in Slots :
    LET r == slot[s]
    IN  /\ nodeEnv = "test"
        /\ r.pc = "done"
        /\ Policy(r.route).configured
        /\ r.ordinal > Policy(r.route).max
        /\ r.outcome = "allow"

\* C6: on every allowed request X-RateLimit-Remaining is max minus the counter
\* stored by that request's increment; over the successive allowed requests
\* of an identity in a window it goes down by exactly 1 a request, and it is
\* never negative.
C6_HeaderCorrect ==
  \A s \in Slots :
    LET r == slot[s]
    IN  (Limited(r) /\ r.outcome = "allow" /\ r.headers.set) =>
          /\ r.headers.remaining = Policy(r.route).max - r.stored
          /\ r.headers.remaining >= 0
          /\ r.prevRemaining >= 0 => r.headers.remaining = r.prevRemaining - 1

\* C7: every denial carries 1 <= retryAfter <= windowMs / 1000, whatever the
\* two readings of the clock are.
C7_RetryAfterBounds ==
  \A s \in Slots :
    LET r == slot[s]
    IN  (r.pc = "done" /\ r.outcome = "deny") =>
          /\ 1 <= r.exception.retryAfter
          /\ r.exception.retryAfter <= Policy(r.route).windowMs \div MsPerSec

\* C8: a denial reaches the client as HTTP 429 with a body of success = false,
\* the policy's message, error = 'Rate Limit Exceeded' and the guard's
\* retryAfter.
C8_DenialBody ==
  \A s \in Slots :
    LET r == slot[s]
        b == r.response.body
    IN  (r.pc = "answered" /\ r.outcome = "deny") =>
          /\ r.response.status = 429
          /\ b.success = FALSE
          /\ b.message = Policy(r.route).message
          /\ "error" \in DOMAIN b
          /\ b.error = "Rate Limit Exceeded"
          /\ "retryAfter" \in DOMAIN b
          /\ b.retryAfter = r.exception.retryAfter

\* C9: limits are per endpoint.  The first request an identity sends to a route
\* in a window is allowed with the route's full allowance (remaining = max - 1),
\* whatever the identity has sent to other routes.
C9_PerEndpoint ==
  \A s \in Slots :
    LET r == slot[s]
    IN  (Limited(r) /\ InWindow(r) /\ r.ordinal = 1) =>
          /\ r.outcome = "allow"
          /\ r.headers.remaining = Policy(r.route).max - 1

\* C10: under every interleaving of the requests of one identity on one route
\* (rate limiting on, the store working), the requests allowed in a window are
\* at most max plus the largest number of requests in flight together in that
\* window.
C10_BoundedOvershoot ==
  (nodeEnv # "test" /\ ~faulted) =>
    \A t \in DOMAIN hist :
      Policy(t[2]).configured =>
        hist[t].allowed <= Policy(t[2]).max + hist[t].peak

\* ============================================================================
\* The resource controllers (ProductController, UserController): read-through
\* cache on the detail route, CacheInterceptor on the detail and list routes,
\* invalidation on the mutating routes.  The store, the clock and RedisService
\* are the ones of the rate limiter.
\*   CrudBegin        a request arrives at a route
\*   InterceptorGet   CacheInterceptor: the lookup under its key
\*   HandlerGet       findOne: redisService.get(cacheKey) and the test of it
\*   PersistRead      the service's findOne / findAll
\*   HandlerSet       findOne: redisService.set(cacheKey, ...)
\*   InterceptorSet   CacheInterceptor: the response is stored and sent
\*   PersistWrite     the service's create / update / remove
\*   DelDetail, DelList   redisService.del of the detail key, of the list key
\*   CrudCacheError   the cache operation a request waits for raises
\*   CrudTick         time passes; entries whose TTL is over are gone

\* `products:${id}`, `users:${id}`
DetailKey(type, id) == <<type, id>>

\* 'products:all', 'users:all': the key of redisService.del and the @CacheKey
\* of the list route
ListKey(type) == <<type, "all">>

\* The key of CacheInterceptor on a route without @CacheKey: the request URL,
\* /products/1 or /users/1.
UrlKey(type, id) == <<IF type = "products" THEN "/products" ELSE "/users", id>>

\* redisService.set(cacheKey, product, 900), redisService.set(cacheKey, safeUser, 600)
DetailTtl(type) == IF type = "products" THEN 900 ELSE 600

\* @CacheTTL of the detail routes and of the list routes, handed to
\* cacheManager.set as it is (milliseconds).
DetailCacheTTL(type) == IF type = "products" THEN 900 ELSE 600
ListCacheTTL(type) == IF type = "products" THEN 600 ELSE 300

\* cacheManager.set(key, value, ttl), ttl in milliseconds
CacheSet(c, key, value, ttl, t) ==
  [k \in DOMAIN c \cup {key} |->
     IF k = key THEN [val |-> value, exp |-> t + ttl] ELSE c[k]]

\* a del that deletes nothing
CacheDelNothing(c, key) == c

\* cacheManager.del(key)
CacheDel(c, key) == [k \in DOMAIN c \ {key} |-> c[k]]

\* RedisService.get: the entry's value, null (0) when there is none
CacheValue(c, key) == IF key \in DOMAIN c THEN c[key].val ELSE 0

\* The instants of a run of the controllers: the start, one second later (the
\* interceptor's entries of the start are gone) and 901 seconds later (every
\* entry of the start is gone).
CrudTimes == {T0, T0 + 1000, T0 + 901000}

Ops == {"findOne", "findAll", "create", "update", "remove"}
Mutations == {"create", "update", "remove"}

\* history: the last handler that ran for a record (a mutation answered with
\* success, or findOne), and whether the detail key held a value when it began
LastMutOf(h, type, id) == IF <<type, id>> \in DOMAIN h THEN h[<<type, id>>] ELSE NoMut
LastMutPut(h, type, id, op, held) ==
  [k \in DOMAIN h \cup {<<type, id>>} |->
     IF k = <<type, id>> THEN [op |-> op, hadKey |-> held] ELSE h[k]]

\* The interceptor's key of a request.
TrackBy(r) == IF r.op = "findOne" THEN UrlKey(r.type, r.id) ELSE ListKey(r.type)

\* A request arrives.  A create is given an id no record has.
CrudBegin(j, op, type, id) ==
  /\ job[j].pc \in {"idle", "answered"}
  /\ slot[j].pc # "handler"
  /\ budget > 0
  /\ op = "create" => db[type][id] = 0
  /\ op = "findAll" => id = "1"
  /\ budget' = budget - 1
  /\ job' = [job EXCEPT ![j] =
       [NoJob EXCEPT !.pc = IF op \in Mutations THEN "dbWrite" ELSE "icGet",
                     !.op = op, !.type = type, !.id = id,
                     !.hadKey = CacheValue(cache, DetailKey(type, id)) # 0,
                     !.after = LastMutOf(lastMut, type, id)]]
  /\ UNCHANGED <<now, cache, faulted, flaky, db, lastMut, outsideCrud>>

\* CacheInterceptor.intercept: a value under the key is the response; without
\* one the handler runs.
InterceptorGet(j) ==
  LET r == job[j]
      key == TrackBy(r)
  IN  /\ r.pc = "icGet"
      /\ IF key \in DOMAIN cache
           THEN job' = [job EXCEPT ![j] = [r EXCEPT !.pc = "answered",
                          !.outcome = "success", !.data = cache[key].val,
                          !.doneAt = now]]
           ELSE job' = [job EXCEPT ![j] = [r EXCEPT !.handler = TRUE,
                          !.pc = IF r.op = "findOne" THEN "hGet" ELSE "dbRead"]]
      /\ UNCHANGED <<now, cache, faulted, flaky, budget, db, lastMut, outsideCrud>>

\* findOne: const cached = await this.redisService.get(cacheKey); if (cached) ...
HandlerGet(j) ==
  LET r == job[j]
      v == CacheValue(cache, DetailKey(r.type, r.id))
      first == LastMutOf(lastMut, r.type, r.id).op = "update"
  IN  /\ r.pc = "hGet"
      /\ job' = [job EXCEPT ![j] =
           IF v # 0 THEN [r EXCEPT !.pc = "icSet", !.data = v, !.next = first]
                    ELSE [r EXCEPT !.pc = "dbRead", !.next = first]]
      /\ lastMut' = LastMutPut(lastMut, r.type, r.id, "findOne", v # 0)
      /\ UNCHANGED <<now, cache, faulted, flaky, budget, db, outsideCrud>>

\* ProductService.findOne gives the document or null; UserService.findOne
\* throws NotFoundCustomException when there is no user; findAll gives every
\* record.
PersistRead(j) ==
  LET r == job[j]
      v == db[r.type][r.id]
  IN  /\ r.pc = "dbRead"
      /\ job' = [job EXCEPT ![j] =
           IF r.op = "findAll"
             THEN [r EXCEPT !.pc = "icSet", !.dbRead = TRUE, !.data = db[r.type]]
           ELSE IF r.type = "users" /\ v = 0
             THEN [r EXCEPT !.pc = "answered", !.dbRead = TRUE,
                            !.outcome = "error", !.doneAt = now]
           ELSE [r EXCEPT !.pc = "hSet", !.dbRead = TRUE, !.data = v]]
      /\ UNCHANGED <<now, cache, faulted, flaky, budget, db, lastMut, outsideCrud>>

\* findOne: await this.redisService.set(cacheKey, product, 900)
HandlerSet(j) ==
  LET r == job[j]
  IN  /\ r.pc = "hSet"
      /\ cache' = RedisSet(cache, DetailKey(r.type, r.id), r.data, DetailTtl(r.type), now)
      /\ job' = [job EXCEPT ![j] = [r EXCEPT !.pc = "icSet", !.setAt = now]]
      /\ UNCHANGED <<now, faulted, flaky, budget, db, lastMut, outsideCrud>>

\* CacheInterceptor: the handler's response is stored under the interceptor's
\* key and sent.
InterceptorSet(j) ==
  LET r == job[j]
      ttl == IF r.op = "findOne" THEN DetailCacheTTL(r.type) ELSE ListCacheTTL(r.type)
  IN  /\ r.pc = "icSet"
      /\ cache' = CacheSet(cache, TrackBy(r), r.data, ttl, now)
      /\ job' = [job EXCEPT ![j] = [r EXCEPT !.pc = "answered",
                   !.outcome = "success", !.doneAt = now]]
      /\ UNCHANGED <<now, faulted, flaky, budget, db, lastMut, outsideCrud>>

\* The record after the persistence layer has applied a mutation: a create
\* stores content 1, an update changes the content of a record there is, a
\* remove leaves no record.
Persisted(op, v) ==
  CASE op = "create" -> 1
    [] op = "update" -> IF v = 0 THEN 0 ELSE v + 1
    [] OTHER         -> 0

\* UserService.update and UserService.remove call findOne first, which throws
\* when there is no user; the product service's findByIdAndUpdate and
\* findByIdAndDelete give null.
PersistThrows(op, type, v) == type = "users" /\ op \in {"update", "remove"} /\ v = 0

\* The mutating handlers up to and with the service call.  ProductController
\* goes on to redisService.del('products:all') after a create, UserController
\* to the verification mail and the token; update and remove go on to the
\* detail key.
PersistWrite(j) ==
  LET r == job[j]
      v == db[r.type][r.id]
      w == Persisted(r.op, v)
  IN  /\ r.pc = "dbWrite"
      /\ IF PersistThrows(r.op, r.type, v)
           THEN /\ job' = [job EXCEPT ![j] = [r EXCEPT !.pc = "answered",
                             !.outcome = "error", !.doneAt = now]]
                /\ UNCHANGED <<db, lastMut>>
           ELSE /\ db' = [db EXCEPT ![r.type][r.id] = w]
                /\ IF r.op = "create" /\ r.type = "users"
                     THEN /\ job' = [job EXCEPT ![j] = [r EXCEPT !.pc = "answered",
                                       !.written = TRUE, !.data = w,
                                       !.outcome = "success", !.doneAt = now]]
                          /\ lastMut' = LastMutPut(lastMut, r.type, r.id, r.op, r.hadKey)
                     ELSE /\ job' = [job EXCEPT ![j] = [r EXCEPT !.written = TRUE,
                                       !.data = w,
                                       !.pc = IF r.op = "create" THEN "delList"
                                              ELSE "delDetail"]]
                          /\ UNCHANGED lastMut
      /\ UNCHANGED <<now, cache, faulted, flaky, budget, outsideCrud>>

\* await this.redisService.del(`products:${id}`)
DelDetail(j) ==
  LET r == job[j]
  IN  /\ r.pc = "delDetail"
      /\ cache' = CacheDel(cache, DetailKey(r.type, r.id))
      /\ job' = [job EXCEPT ![j] = [r EXCEPT !.pc = "delList", !.dels = @ + 1]]
      /\ UNCHANGED <<now, faulted, flaky, budget, db, lastMut, outsideCrud>>

\* await this.redisService.del('products:all'); return buildSuccessResponse(...)
DelList(j) ==
  LET r == job[j]
  IN  /\ r.pc = "delList"
      /\ cache' = CacheDel(cache, ListKey(r.type))
      /\ job' = [job EXCEPT ![j] = [r EXCEPT !.pc = "answered", !.dels = @ + 1,
                   !.outcome = "success", !.doneAt = now]]
      /\ lastMut' = LastMutPut(lastMut, r.type, r.id, r.op, r.hadKey)
      /\ UNCHANGED <<now, faulted, flaky, budget, db, outsideCrud>>

\* The cache operation the request waits for raises.  CacheInterceptor catches
\* the error of its own get (the handler runs) and of its own set (the response
\* is sent); the handlers have no try around redisService.get, set and del, so
\* the error leaves the handler and HttpExceptionFilter answers 500.  A set or
\* del that raises may or may not have been applied by the store.
CrudCacheError(j) ==
  LET r == job[j]
      failed == [r EXCEPT !.pc = "answered", !.outcome = "error", !.doneAt = now,
                          !.getFailed = (r.pc = "hGet"),
                          !.delFailed = (r.pc \in {"delDetail", "delList"}),
                          !.dels = IF r.pc \in {"delDetail", "delList"} THEN @ + 1 ELSE @]
  IN  /\ flaky
      /\ r.pc \in {"icGet", "hGet", "hSet", "icSet", "delDetail", "delList"}
      /\ faulted' = TRUE
      /\ job' = [job EXCEPT ![j] =
           CASE r.pc = "icGet" -> [r EXCEPT !.handler = TRUE,
                                     !.pc = IF r.op = "findOne" THEN "hGet" ELSE "dbRead"]
             [] r.pc = "icSet" -> [r EXCEPT !.pc = "answered", !.outcome = "success",
                                            !.doneAt = now]
             [] OTHER          -> failed]
      /\ \/ cache' = cache
         \/ /\ r.pc = "hSet"
            /\ cache' = RedisSet(cache, DetailKey(r.type, r.id), r.data,
                                 DetailTtl(r.type), now)
         \/ /\ r.pc = "delDetail"
            /\ cache' = CacheDel(cache, DetailKey(r.type, r.id))
         \/ /\ r.pc = "delList"
            /\ cache' = CacheDel(cache, ListKey(r.type))
      /\ UNCHANGED <<now, flaky, budget, db, lastMut, outsideCrud>>

\* Time passes; the store drops the entries whose TTL is over.
CrudTick ==
  /\ \E t \in CrudTimes :
       /\ t > now
       /\ now' = t
       /\ cache' = Live(cache, t)
  /\ UNCHANGED <<faulted, flaky, budget, crudVars, outsideCrud>>

CrudStep(j) ==
  \/ \E op \in Ops, type \in Types, id \in Ids : CrudBegin(j, op, type, id)
  \/ InterceptorGet(j)
  \/ HandlerGet(j)
  \/ PersistRead(j)
  \/ HandlerSet(j)
  \/ InterceptorSet(j)
  \/ PersistWrite(j)
  \/ DelDetail(j)
  \/ DelList(j)
  \/ CrudCacheError(j)

\* The state before the first controller request: record 1 of each type is
\* persisted, nothing is cached, and no rate-limited request is in flight.
InitCrudWith(f, requests) ==
  /\ now = T0
  /\ nodeEnv = "production"
  /\ flaky = f
  /\ clients = {}
  /\ budget = requests
  /\ cache = EmptyMap
  /\ slot = [s \in Slots |-> Idle]
  /\ issued = 0
  /\ faulted = FALSE
  /\ hist = EmptyMap
  /\ db = [type \in Types |-> [id \in Ids |-> IF id = "1" THEN 1 ELSE 0]]
  /\ job = [j \in Slots |-> NoJob]
  /\ lastMut = EmptyMap
  /\ VerifyIdle
  /\ BillingIdle

\* Requests processed one at a time.
InitCrud == InitCrudWith(FALSE, MaxJobs) \/ InitCrudWith(TRUE, MaxFlakyJobs)

NextCrud == CrudTick \/ CrudStep(1)

SpecCrud == InitCrud /\ [][NextCrud]_vars

\* ------------------------------------------------------ claims C11 .. C16
\* The request of the slot has been answered, no cache operation has raised,
\* and no time has passed since the answer.
Answered(r) == r.pc = "answered" /\ ~faulted /\ now = r.doneAt

\* C11: with the cache working and requests processed one at a time, after
\* ProductController.update(id, dto) has returned with success the key
\* products:{id} is absent, and the next ProductController.findOne(id) reads
\* the persistence layer and stores the updated product under products:{id}
\* (where it stays until its TTL is over).
C11_UpdateInvalidates ==
  LET r == job[1]
      key == DetailKey(r.type, r.id)
  IN  (Answered(r) /\ r.type = "products") =>
        /\ (r.op = "update" /\ r.outcome = "success") => key \notin DOMAIN cache
        /\ (r.op = "findOne" /\ r.next) =>
             /\ r.outcome = "success"
             /\ r.dbRead
             /\ r.data = db[r.type][r.id]
             /\ r.setAt # 0
             /\ now = r.setAt =>
                  /\ key \in DOMAIN cache
                  /\ cache[key].val = db[r.type][r.id]

\* ProductController.findOne has run as the first handler after an update of a
\* product whose key held a value, and has stored the updated product.
C11_Witness ==
  LET r == job[1]
  IN  /\ Answered(r)
      /\ r.type = "products"
      /\ r.op = "findOne"
      /\ r.next
      /\ r.after.op = "update"
      /\ r.after.hadKey
      /\ r.data > 1
      /\ now = r.setAt

\* C12: with requests processed one at a time, a detail request (GET
\* /products/:id, GET /users/:id, through the CacheInterceptor and the handler)
\* that starts after a successful update of the id was answered returns the
\* updated record, whatever detail requests were served before the update.
C12_DetailAfterUpdate ==
  LET r == job[1]
  IN  (/\ r.pc = "answered"
       /\ ~faulted
       /\ r.op = "findOne"
       /\ r.outcome = "success"
       /\ r.after.op = "update") =>
        r.data = db[r.type][r.id]

\* C13: for products and for users, after every create, update or delete the
\* controller answers with success the list key of the type is absent from the
\* cache, and after an update or a delete the detail key is absent as well.
C13_MutationInvalidates ==
  LET r == job[1]
  IN  (Answered(r) /\ r.op \in Mutations /\ r.outcome = "success") =>
        /\ ListKey(r.type) \notin DOMAIN cache
        /\ r.op \in {"update", "remove"} => DetailKey(r.type, r.id) \notin DOMAIN cache

\* Requests that overlap: every slot takes requests, and the steps of the
\* requests in flight interleave (inside one instant: no TTL runs out).
InitCrudConc == InitCrudWith(FALSE, MaxConcJobs) \/ InitCrudWith(TRUE, MaxConcFlakyJobs)

NextCrudConc == \E j \in Slots : CrudStep(j)

SpecCrudConc == InitCrudConc /\ [][NextCrudConc]_vars

\* C14: under every interleaving of a detail read with an update of the same
\* id, once both requests have completed the entry {type}:{id} is absent or
\* equal to the persisted value.
C14_NoStaleEntryAfterRace ==
  \A a, b \in Slots :
    LET r == job[a]
        u == job[b]
        key == DetailKey(r.type, r.id)
    IN  (/\ ~faulted
         /\ r.pc = "answered" /\ r.op = "findOne" /\ r.outcome = "success"
         /\ u.pc = "answered" /\ u.op = "update" /\ u.outcome = "success"
         /\ u.type = r.type /\ u.id = r.id) =>
          \/ key \notin DOMAIN cache
          \/ cache[key].val = db[r.type][r.id]

\* C15: when the cache get of a detail read (ProductController.findOne,
\* UserController.findOne) raises, the read is treated as a miss: the handler
\* reads the persistence layer and answers with success.
C15_GetErrorIsMiss ==
  \A j \in Slots :
    LET r == job[j]
    IN  (r.pc = "answered" /\ r.op = "findOne" /\ r.getFailed) =>
          /\ r.dbRead
          /\ r.outcome = "success"

\* C16: when the persistence write of a create, update or delete has succeeded
\* and a cache delete after it raises, the request is still answered with
\* success.
C16_DelErrorNotFatal ==
  \A j \in Slots :
    LET r == job[j]
    IN  (r.pc = "answered" /\ r.op \in Mutations /\ r.written /\ r.delFailed) =>
          r.outcome = "success"

\* ============================================================================
\* E-mail verification (UserService.generateEmailVerificationToken,
\* verifyEmail; UserController.create and AuthController.resendVerificationEmail
\* issue the tokens).  A token is the number of its issue: crypto.randomBytes(32)
\* gives a value no earlier token has.  Token 0 is the empty string.
\*   Register            POST /users: the row and its first token
\*   ResendVerification  POST /auth/resend-verification: a new token
\*   VerifyBegin         verifyEmail is called; the test of !token
\*   VerifyFind          the row with the token is looked up and tested
\*   VerifyUpdate        the row is marked verified; the call returns
\*   VerifyTick          time passes

\* A token no user was ever given.
UnknownToken == MaxTokens + 1

\* The instants of a run: the start, an hour later, 24 hours after the start,
\* one millisecond after that, and one millisecond after 25 hours.
VerifyTimes == {T0, T0 + HourMs, T0 + TokenLifeMs, T0 + TokenLifeMs + 1,
                T0 + TokenLifeMs + HourMs + 1}

\* generateEmailVerificationToken: userRepo.update(userId, {emailVerificationToken:
\* token, emailVerificationTokenExpires: new Date(Date.now() + 24h)})
generateEmailVerificationToken(repo, u, token, t) ==
  [repo EXCEPT ![u].token = token, ![u].expires = t + TokenLifeMs]

\* a lookup in every token ever issued
FindByIssuedToken(repo, log, token) ==
  {u \in UserIds : repo[u].exists /\ token \in 1 .. Len(log) /\ log[token].user = u}

\* userRepo.findOne({ where: { emailVerificationToken: token } })
FindByToken(repo, log, token) ==
  {u \in UserIds : repo[u].exists /\ repo[u].token = token}

\* an expiry test with an hour of grace
ExpiredWithGrace(expires, t) == expires = 0 \/ expires + HourMs < t

\* !user.emailVerificationTokenExpires || user.emailVerificationTokenExpires < new Date()
Expired(expires, t) == expires = 0 \/ expires < t

\* history: a later token was issued to the user of this token
Superseded(log, token) ==
  /\ token \in 1 .. Len(log)
  /\ \E k \in (token + 1) .. Len(log) : log[k].user = log[token].user

\* UserController.create: userService.create, then
\* generateEmailVerificationToken(user.id).
Register(u) ==
  LET token == Len(tokenLog) + 1
      row == [NoUser EXCEPT !.exists = TRUE]
  IN  /\ ~userRepo[u].exists
      /\ budget > 0
      /\ token <= MaxTokens
      /\ budget' = budget - 1
      /\ userRepo' = generateEmailVerificationToken(
                       [userRepo EXCEPT ![u] = row], u, token, now)
      /\ tokenLog' = Append(tokenLog, [user |-> u, at |-> now])
      /\ UNCHANGED <<now, cache, faulted, flaky, vcall, outsideVerify>>

\* AuthController.resendVerificationEmail: UserService.resendVerificationEmail
\* throws for no user and for a verified one; then a new token is generated.
ResendVerification(u) ==
  LET token == Len(tokenLog) + 1
  IN  /\ userRepo[u].exists
      /\ ~userRepo[u].isEmailVerified
      /\ budget > 0
      /\ token <= MaxTokens
      /\ budget' = budget - 1
      /\ userRepo' = generateEmailVerificationToken(userRepo, u, token, now)
      /\ tokenLog' = Append(tokenLog, [user |-> u, at |-> now])
      /\ UNCHANGED <<now, cache, faulted, flaky, vcall, outsideVerify>>

\* verifyEmail(token): if (!token) throw new ValidationException(...).  The
\* caller sends the empty string, a token some user was given, or a token no
\* user is ever given (32 random bytes are not guessed ahead of their issue).
VerifyBegin(token) ==
  LET issued_ == token \in 1 .. Len(tokenLog)
      u == IF issued_ THEN tokenLog[token].user ELSE 0
      c == [NoCall EXCEPT !.token = token,
              !.older = Superseded(tokenLog, token),
              !.newest = issued_ /\ ~Superseded(tokenLog, token),
              !.late = issued_ /\ now > tokenLog[token].at + TokenLifeMs,
              !.wasVerified = issued_ /\ userRepo[u].isEmailVerified]
  IN  /\ vcall.pc \in {"idle", "done"}
      /\ token \in {0, UnknownToken} \cup (1 .. Len(tokenLog))
      /\ budget > 0
      /\ budget' = budget - 1
      /\ vcall' = IF token = 0
                    THEN [c EXCEPT !.pc = "done", !.result = "validation",
                                   !.message = "Verification token is required"]
                    ELSE [c EXCEPT !.pc = "find"]
      /\ UNCHANGED <<now, cache, faulted, flaky, userRepo, tokenLog, outsideVerify>>

\* lines 246-262: the row with the token, and the three tests of it
VerifyFind ==
  LET found == FindByToken(userRepo, tokenLog, vcall.token)
      u == CHOOSE x \in found : TRUE
      fail(m) == [vcall EXCEPT !.pc = "done", !.result = "validation", !.message = m]
  IN  /\ vcall.pc = "find"
      /\ vcall' =
           IF found = {} THEN fail("Invalid verification token")
           ELSE IF Expired(userRepo[u].expires, now)
             THEN fail("Verification token has expired")
           ELSE IF userRepo[u].isEmailVerified THEN fail("Email is already verified")
           ELSE [vcall EXCEPT !.pc = "update", !.user = u]
      /\ UNCHANGED <<now, cache, faulted, flaky, budget, userRepo, tokenLog,
                     outsideVerify>>

\* lines 265-271: userRepo.update(user.id, {isEmailVerified: true,
\* emailVerificationToken: undefined, emailVerificationTokenExpires: undefined})
\* and findOne.  TypeORM leaves a property that is undefined out of the UPDATE,
\* so the token columns keep their values; a driver that writes NULL for it
\* clears them.
VerifyUpdate ==
  LET u == vcall.user
  IN  /\ vcall.pc = "update"
      /\ \/ userRepo' = [userRepo EXCEPT ![u].isEmailVerified = TRUE]
         \/ userRepo' = [userRepo EXCEPT ![u].isEmailVerified = TRUE,
                                         ![u].token = 0, ![u].expires = 0]
      /\ vcall' = [vcall EXCEPT !.pc = "done", !.result = "success", !.wrote = TRUE]
      /\ UNCHANGED <<now, cache, faulted, flaky, budget, tokenLog, outsideVerify>>

\* Time passes.
VerifyTick ==
  /\ \E t \in VerifyTimes :
       /\ t > now
       /\ now' = t
  /\ UNCHANGED <<cache, faulted, flaky, budget, verifyVars, outsideVerify>>

NextVerify ==
  \/ \E u \in UserIds : Register(u)
  \/ \E u \in UserIds : ResendVerification(u)
  \/ \E token \in 0 .. UnknownToken : VerifyBegin(token)
  \/ VerifyFind
  \/ VerifyUpdate
  \/ VerifyTick

\* No user is registered; the rate limiter and the controllers are idle.
InitVerify ==
  /\ now = T0
  /\ nodeEnv = "production"
  /\ flaky = FALSE
  /\ clients = {}
  /\ budget = MaxVerifyOps
  /\ cache = EmptyMap
  /\ slot = [s \in Slots |-> Idle]
  /\ issued = 0
  /\ faulted = FALSE
  /\ hist = EmptyMap
  /\ db = NoRecords
  /\ job = [j \in Slots |-> NoJob]
  /\ lastMut = EmptyMap
  /\ VerifyIdle
  /\ BillingIdle

SpecVerify == InitVerify /\ [][NextVerify]_vars

\* ------------------------------------------------------ claims C17, C18
\* C17: a user has at most one active verification token: once a new token has
\* been issued to a user, verifyEmail called with a token issued to that user
\* earlier fails, and a verifyEmail that succeeds was called with the token
\* issued to the user last.
C17_OneActiveToken ==
  vcall.pc = "done" =>
    /\ vcall.older => (vcall.result = "validation" /\ ~vcall.wrote)
    /\ vcall.result = "success" => vcall.newest

\* verifyEmail was called with a user's first token after a second one had been
\* issued to the user, and has failed.
C17_Witness ==
  /\ vcall.pc = "done"
  /\ vcall.older
  /\ vcall.result = "validation"
  /\ vcall.message = "Invalid verification token"
  /\ Len(tokenLog) >= 2

View(payments, subs, users, stock) ==
  [payments |-> [pi \in Intents |-> payments[pi].status],
   subs     |-> [sub \in SubIds |-> subs[sub].status],
   users    |-> [u \in UserIds |-> users[u].subscriptionStatus],
   stock    |-> stock]

\* history: the delivery of event e that met the state of the unprimed
\* variables; a duplicate when e is the event delivered just before.
Delivery(e) ==
  [event |-> e, dup |-> (delivered.event = e),
   before |-> View(paymentModel, subscriptionModel, userSub, stockQuantity)]

\* createPaymentIntent: dto.quantity (requested, @Min(1)) is tested against the
\* stock, lines 48-51; lines 92-106: the Payment document is saved with status
\* PENDING and metadata: dto.metadata (quantity 0: the client's metadata has no
\* quantity).
CreatePaymentIntent(pi, requested, quantity) ==
  /\ budget > 0
  /\ ~paymentModel[pi].exists
  /\ \A p \in Intents : p < pi => paymentModel[p].exists
  /\ stockQuantity >= requested
  /\ budget' = budget - 1
  /\ paymentModel' = [paymentModel EXCEPT ![pi] =
       [exists |-> TRUE, status |-> "pending", quantity |-> quantity,
        requested |-> requested, intent |-> "requires_payment_method",
        reduced |-> 0]]
  /\ delivered' = NoDelivery
  /\ UNCHANGED <<now, cache, faulted, flaky, stockQuantity, subscriptionModel, userSub,
                 stripeSubs, subCall, outsideBilling>>

\* updateProductStock: findByIdAndUpdate(productId, {$inc: {stockQuantity: -quantity}})
updateProductStock(stock, quantity) == stock - quantity

\* mapStripeStatusToPaymentStatus
mapStripeStatusToPaymentStatus(stripeStatus) ==
  IF stripeStatus \in {"succeeded", "processing", "requires_action", "canceled"}
    THEN stripeStatus ELSE "pending"

\* What stripe.paymentIntents.confirm gives: the status of the intent, or an
\* error (a declined card; an intent that has succeeded cannot be confirmed
\* again).
ConfirmResults == {"succeeded", "processing", "requires_action", "throws"}

\* confirmPayment(dto), lines 122-156.
ConfirmPayment(pi, result) ==
  LET p == paymentModel[pi]
  IN  /\ budget > 0
      /\ budget' = budget - 1
      /\ delivered' = NoDelivery
      /\ IF ~p.exists \/ p.intent = "succeeded" \/ result = "throws"
           THEN UNCHANGED <<paymentModel, stockQuantity>>
           ELSE /\ paymentModel' = [paymentModel EXCEPT ![pi] =
                     [p EXCEPT !.status = mapStripeStatusToPaymentStatus(result),
                               !.intent = result,
                               !.reduced = IF result = "succeeded" THEN @ + 1 ELSE @]]
                /\ stockQuantity' = IF result = "succeeded"
                                      THEN updateProductStock(stockQuantity, 1)
                                      ELSE stockQuantity
      /\ UNCHANGED <<now, cache, faulted, flaky, subscriptionModel, userSub, stripeSubs,
                     subCall, outsideBilling>>

\* handlePaymentSucceeded: the status, and the stock when the Payment's
\* metadata has a quantity.
handlePaymentSucceeded(pi) ==
  IF ~paymentModel[pi].exists
    THEN UNCHANGED <<paymentModel, stockQuantity>>
    ELSE /\ paymentModel' = [paymentModel EXCEPT ![pi].status = "succeeded",
                                                 ![pi].intent = "succeeded",
                                                 ![pi].reduced = @ + paymentModel[pi].quantity]
         /\ stockQuantity' = IF paymentModel[pi].quantity # 0
                               THEN updateProductStock(stockQuantity,
                                                       paymentModel[pi].quantity)
                               ELSE stockQuantity

\* handlePaymentFailed: the status.
handlePaymentFailed(pi) ==
  /\ paymentModel' = IF paymentModel[pi].exists
                       THEN [paymentModel EXCEPT ![pi].status = "failed"]
                       ELSE paymentModel
  /\ UNCHANGED stockQuantity

PaymentEvents == {"payment_intent.succeeded", "payment_intent.payment_failed"}

\* PaymentService.handleWebhook(event): the switch on event.type.
DeliverPayment(type, pi) ==
  /\ budget > 0
  /\ budget' = budget - 1
  /\ IF type = "payment_intent.succeeded" THEN handlePaymentSucceeded(pi)
                                          ELSE handlePaymentFailed(pi)
  /\ delivered' = Delivery(<<type, pi, "">>)
  /\ UNCHANGED <<now, cache, faulted, flaky, subscriptionModel, userSub, stripeSubs,
                 subCall, outsideBilling>>

\* the test for an ACTIVE document alone
ExistingActiveOnly(subs, u) ==
  \E sub \in SubIds : subs[sub].exists /\ subs[sub].userId = u /\ subs[sub].status = "active"

\* subscriptionModel.findOne({userId, status: {$in: [ACTIVE, TRIALING]}})
ExistingSubscription(subs, u) ==
  \E sub \in SubIds :
    /\ subs[sub].exists
    /\ subs[sub].userId = u
    /\ subs[sub].status \in {"active", "trialing"}

\* The status Stripe gives a subscription created with payment_behavior
\* 'default_incomplete': incomplete, or trialing for a price with a trial.
CreatedStatuses == {"incomplete", "trialing"}

\* createSubscription(userId, dto), lines 79-201; validPrice is what
\* stripe.prices.retrieve gives for dto.priceId.
CreateSubscription(u, validPrice, status) ==
  LET sub == Len(stripeSubs) + 1
      \* history: u has a document whose status is ACTIVE or TRIALING
      had == \E d \in SubIds : /\ subscriptionModel[d].exists
                               /\ subscriptionModel[d].userId = u
                               /\ subscriptionModel[d].status \in {"active", "trialing"}
      fail(m) == [user |-> u, result |-> "validation", message |-> m,
                  hadActive |-> had, changed |-> FALSE]
  IN  /\ budget > 0
      /\ budget' = budget - 1
      /\ delivered' = NoDelivery
      /\ IF ~userSub[u].stripeCustomerId
           THEN /\ subCall' = fail("User must have a Stripe customer ID to create subscriptions")
                /\ UNCHANGED <<subscriptionModel, userSub, stripeSubs>>
         ELSE IF ExistingSubscription(subscriptionModel, u)
           THEN /\ subCall' = fail("User already has an active subscription")
                /\ UNCHANGED <<subscriptionModel, userSub, stripeSubs>>
         ELSE IF ~validPrice
           THEN /\ subCall' = fail("Invalid price ID or product not found")
                /\ UNCHANGED <<subscriptionModel, userSub, stripeSubs>>
         ELSE /\ sub <= MaxSubs
              /\ stripeSubs' = Append(stripeSubs, u)
              /\ subscriptionModel' = [subscriptionModel EXCEPT ![sub] =
                   [exists |-> TRUE, userId |-> u, status |-> status]]
              /\ userSub' = [userSub EXCEPT ![u].currentSubscriptionId = sub,
                                            ![u].subscriptionStatus = status]
              /\ subCall' = [user |-> u, result |-> "success", message |-> "",
                             hadActive |-> had, changed |-> TRUE]
      /\ UNCHANGED <<now, cache, faulted, flaky, paymentModel, stockQuantity,
                     outsideBilling>>

\* handleSubscriptionUpdated: findOneAndUpdate by stripeSubscriptionId, then
\* updateUserSubscriptionInfo of metadata.userId.
handleSubscriptionUpdated(sub, status) ==
  /\ subscriptionModel' = IF subscriptionModel[sub].exists
                            THEN [subscriptionModel EXCEPT ![sub].status = status]
                            ELSE subscriptionModel
  /\ userSub' = [userSub EXCEPT ![stripeSubs[sub]].subscriptionStatus = status]

\* handleSubscriptionDeleted: status CANCELED, and 'canceled' for the user.
handleSubscriptionDeleted(sub) == handleSubscriptionUpdated(sub, "canceled")

\* The status a customer.subscription.updated event carries.
UpdatedStatuses == {"active", "past_due"}

\* SubscriptionService.handleSubscriptionWebhook(event) for a subscription
\* Stripe holds (its metadata.userId is the owner's).
DeliverSubscription(type, sub, status) ==
  /\ budget > 0
  /\ sub \in 1 .. Len(stripeSubs)
  /\ type = "customer.subscription.deleted" => status = "canceled"
  /\ type = "customer.subscription.updated" => status \in UpdatedStatuses
  /\ budget' = budget - 1
  /\ IF type = "customer.subscription.updated"
       THEN handleSubscriptionUpdated(sub, status)
       ELSE handleSubscriptionDeleted(sub)
  /\ delivered' = Delivery(<<type, sub, status>>)
  /\ UNCHANGED <<now, cache, faulted, flaky, paymentModel, stockQuantity, stripeSubs,
                 subCall, outsideBilling>>

SubscriptionEvents == {"customer.subscription.updated", "customer.subscription.deleted"}

NextBilling ==
  \/ \E pi \in Intents, requested \in 1 .. 2, quantity \in 0 .. 2 :
       CreatePaymentIntent(pi, requested, quantity)
  \/ \E pi \in Intents, result \in ConfirmResults : ConfirmPayment(pi, result)
  \/ \E u \in UserIds, validPrice \in BOOLEAN, status \in CreatedStatuses :
       CreateSubscription(u, validPrice, status)
  \/ \E type \in PaymentEvents, pi \in Intents : DeliverPayment(type, pi)
  \/ \E type \in SubscriptionEvents, sub \in SubIds,
        status \in UpdatedStatuses \cup {"canceled"} :
       DeliverSubscription(type, sub, status)

\* No payment and no subscription; the other components are idle.
InitBilling ==
  /\ now = T0
  /\ nodeEnv = "production"
  /\ flaky = FALSE
  /\ clients = {}
  /\ budget = MaxBillingOps
  /\ cache = EmptyMap
  /\ slot = [s \in Slots |-> Idle]
  /\ issued = 0
  /\ faulted = FALSE
  /\ hist = EmptyMap
  /\ db = NoRecords
  /\ job = [j \in Slots |-> NoJob]
  /\ lastMut = EmptyMap
  /\ VerifyIdle
  /\ BillingIdle

SpecBilling == InitBilling /\ [][NextBilling]_vars

\* ------------------------------------------------------ claims C19, C20
\* C19: webhook handling is idempotent under duplicate delivery: a Stripe event
\* (payment_intent.succeeded, payment_intent.payment_failed,
\* customer.subscription.updated, customer.subscription.deleted) processed a
\* second time leaves the payment status, the subscription status and the
\* product's stockQuantity as the first delivery left them.
C19_WebhookIdempotent ==
  delivered.dup =>
    View(paymentModel, subscriptionModel, userSub, stockQuantity) = delivered.before

\* C20: createSubscription for a user who has a subscription document with
\* status ACTIVE or TRIALING fails with the validation error 'User already has
\* an active subscription', creates no subscription at Stripe, saves no
\* document and leaves the user's subscription columns as they are.
C20_NoSecondSubscription ==
  subCall.hadActive =>
    /\ subCall.result = "validation"
    /\ subCall.message = "User already has an active subscription"
    /\ ~subCall.changed

\* createSubscription was called for a user whose subscription is trialing (or
\* active), and has failed.
C20_Witness ==
  /\ subCall.hadActive
  /\ subCall.result = "validation"
  /\ Len(stripeSubs) = 1
  /\ \E sub \in SubIds : subscriptionModel[sub].exists /\ subscriptionModel[sub].userId = subCall.user

\* ============================================================================
\* Further claims on the rate limiter (C21 .. C24, C27, C28)

\* C21: the value under a rate-limit window key is a monotonically increasing
\* counter: under every interleaving of the requests of one identity in one
\* window (the store working), no write to the key stores a value lower than
\* the value the key held immediately before the write.
C21_MonotonicCounter ==
  [][~faulted' =>
       \A k \in DOMAIN cache \cap DOMAIN cache' :
         k[1] = "rate_limit" => cache'[k].val >= cache[k].val]_vars

\* C22: saturation is absorbing within a window.  Once a request of an
\* identity has been denied in a window, every request of the identity that
\* starts later in the window is denied as well (the store working, the key not
\* expired), also when other requests of the identity were in flight at the
\* moment of the denial.
C22_SaturationAbsorbing ==
  \A s \in Slots :
    LET r == slot[s]
    IN  (Limited(r) /\ InWindow(r) /\ r.afterDenial) => r.outcome = "deny"

\* One sender on the login route (max 5), and the runs in which the guard does
\* not limit: the test environment, a route without a policy, a store that
\* fails.
BurstEnvironment ==
  [nodeEnv |-> "production", flaky |-> FALSE, clients |-> {<<Shape("ipA"), "login">>}]

UnlimitedEnvironments ==
  { [nodeEnv |-> "production", flaky |-> FALSE, clients |-> {<<Shape("ipA"), "plain">>}],
    [nodeEnv |-> "production", flaky |-> TRUE,  clients |-> {<<Shape("ipA"), "login">>}],
    [nodeEnv |-> "test",       flaky |-> FALSE, clients |-> {<<Shape("ipA"), "login">>}] }

InitBurst ==
  \/ InitWith(BurstEnvironment, MaxBurstRequests)
  \/ \E env \in UnlimitedEnvironments : InitWith(env, MaxUnlimitedRequests)

\* The instants around the end of a 15 minute window: its start, its last
\* millisecond, the start of the next window and the millisecond after it (the
\* first at which an entry written at the start is gone), and the start of the
\* window after that.
BurstTimes == {T0, T0 + 899999, T0 + 900000, T0 + 900001, T0 + 1800000}

BurstTick ==
  /\ \E t \in BurstTimes :
       /\ t > now
       /\ now' = t
       /\ cache' = Live(cache, t)
  /\ UNCHANGED <<nodeEnv, slot, issued, faulted, clients, flaky, budget, hist>>
  /\ UNCHANGED appVars

NextBurst == BurstTick \/ Step(1)

\* Requests processed one at a time, enough of them to fill two windows.
SpecBurst == InitBurst /\ [][NextBurst]_vars

RECURSIVE SumAt(_, _)
\* the requests of the bag b at the instants of the set ts
SumAt(b, ts) ==
  IF ts = {} THEN 0
  ELSE LET t == CHOOSE x \in ts : TRUE
       IN  b[t] + SumAt(b, ts \ {t})

RECURSIVE AllowedIn(_, _, _, _)
\* The allowed requests of the sender who on the route, over the window
\* indexes ks, that read the clock in the interval lo .. hi.
AllowedIn(h, ks, lo, hi) ==
  IF ks = {} THEN 0
  ELSE LET k == CHOOSE x \in ks : TRUE
       IN  SumAt(h[k].at, {t \in DOMAIN h[k].at : lo <= t /\ t <= hi})
             + AllowedIn(h, ks \ {k}, lo, hi)

\* the window indexes of a sender on a route
WindowsOf(h, who, route) == {k \in DOMAIN h : k[1] = who /\ k[2] = route}

C24_TtlCoversWindow ==
  \A s \in Slots :
    LET r == slot[s]
        p == Policy(r.route)
    IN  (r.pc \in {"done", "answered"} /\ r.outcome = "allow" /\ r.headers.set) =>
          /\ r.exp >= ResetTime(r.windowStart, p.windowMs)
          /\ (~faulted /\ InWindow(r)) =>
               /\ r.key \in DOMAIN cache
               /\ cache[r.key].val >= 1
               /\ cache[r.key].exp >= ResetTime(r.windowStart, p.windowMs)

\* A request was allowed at the very start of its window, its entry expires at
\* the end of the window exactly, and the clock is at the window's last
\* millisecond: the entry is there.
C24_Witness ==
  LET r == slot[1]
      p == Policy(r.route)
  IN  /\ r.pc = "answered"
      /\ r.outcome = "allow"
      /\ r.headers.set
      /\ ~faulted
      /\ r.exp = ResetTime(r.windowStart, p.windowMs)
      /\ now = ResetTime(r.windowStart, p.windowMs) - 1
      /\ r.key \in DOMAIN cache

\* C27: a denied request changes nothing in the cache.  When canActivate
\* rejects with 429, the value and the expiry of the window key are what they
\* were before the request, and no other key has been written (a denied
\* request neither raises the count nor lengthens the key's life).
C27_DenialFrame ==
  \A s \in Slots :
    LET r == slot[s]
    IN  (Limited(r) /\ r.outcome = "deny" /\ InWindow(r)) =>
          /\ r.key \in DOMAIN r.before
          /\ r.key \in DOMAIN cache
          /\ cache[r.key] = r.before[r.key]
          /\ \A k \in DOMAIN cache : k \in DOMAIN r.before /\ cache[k] = r.before[k]

\* A request was denied at a counter of max, and the key holds max with the
\* expiry it had.
C27_Witness ==
  LET r == slot[1]
  IN  /\ Limited(r)
      /\ r.outcome = "deny"
      /\ InWindow(r)
      /\ r.currentCount = Policy(r.route).max
      /\ r.key \in DOMAIN cache
      /\ cache[r.key].val = Policy(r.route).max
      /\ cache[r.key].exp = r.before[r.key].exp

\* C28: in every reachable state the value under a rate-limit window key is an
\* integer from 1 to the policy's max: no sequence and no interleaving of the
\* requests of one identity on one route stores a value greater than max.
C28_CounterWithinMax ==
  (nodeEnv # "test" /\ ~faulted) =>
    \A k \in DOMAIN cache :
      \A c \in clients :
        (k[1] = "rate_limit" /\ Policy(c[2]).configured /\ k[2] = getIdentifier(c[1])) =>
          /\ cache[k].val >= 1
          /\ cache[k].val <= Policy(c[2]).max

\* ============================================================================
\* Further claims on the resource controllers (C25, C26)

GuardEntered(r) == r.pc \in {"got", "done"} /\ r.outcome # "deny"

\* canActivate has returned true
GuardPassed(r) == r.pc = "done" /\ r.outcome = "allow"

\* The framework calls UserController.create: userService.create(dto) is the
\* first thing the handler does.
RunHandler(s, id) ==
  /\ GuardPassed(slot[s])
  /\ slot[s].route = "createUser"
  /\ job[s].pc \in {"idle", "answered"}
  /\ db["users"][id] = 0
  /\ slot' = [slot EXCEPT ![s] = [@ EXCEPT !.pc = "handler"]]
  /\ job' = [job EXCEPT ![s] =
       [NoJob EXCEPT !.pc = "dbWrite", !.op = "create", !.type = "users", !.id = id,
                     !.hadKey = CacheValue(cache, DetailKey("users", id)) # 0,
                     !.after = LastMutOf(lastMut, "users", id)]]
  /\ UNCHANGED <<now, nodeEnv, cache, issued, faulted, clients, flaky, budget, hist,
                 db, lastMut, verifyVars, billingVars>>

\* UserController.create has returned (or thrown): the response is sent.
Respond(s) ==
  /\ slot[s].pc = "handler"
  /\ job[s].pc = "answered"
  /\ slot' = [slot EXCEPT ![s] =
       [@ EXCEPT !.pc = "answered",
                 !.response = [kind |-> "handler", status |-> 0,
                               body |-> [success |-> job[s].outcome = "success"]]]]
  /\ UNCHANGED <<now, nodeEnv, cache, issued, faulted, clients, flaky, budget, hist,
                 crudVars, verifyVars, billingVars>>

GuardedEnvironments ==
  { [nodeEnv |-> "production", flaky |-> FALSE, clients |-> {<<Shape("ipA"), "createUser">>}],
    [nodeEnv |-> "production", flaky |-> FALSE, clients |-> {<<Shape("ipA"), "login">>}] }

UnguardedEnvironments ==
  { [nodeEnv |-> "production", flaky |-> FALSE, clients |-> {<<Shape("ipA"), "plain">>}],
    [nodeEnv |-> "production", flaky |-> TRUE,  clients |-> {<<Shape("ipA"), "createUser">>}],
    [nodeEnv |-> "test",       flaky |-> FALSE, clients |-> {<<Shape("ipA"), "createUser">>}] }

\* Record 1 of each type is persisted, nothing is cached.
InitGuardedWith(env, requests) ==
  /\ now = T0
  /\ nodeEnv = env.nodeEnv
  /\ flaky = env.flaky
  /\ clients = env.clients
  /\ budget = requests
  /\ cache = EmptyMap
  /\ slot = [s \in Slots |-> Idle]
  /\ issued = 0
  /\ faulted = FALSE
  /\ hist = EmptyMap
  /\ db = [type \in Types |-> [id \in Ids |-> IF id = "1" THEN 1 ELSE 0]]
  /\ job = [j \in Slots |-> NoJob]
  /\ lastMut = EmptyMap
  /\ VerifyIdle
  /\ BillingIdle

InitGuarded ==
  \/ \E env \in GuardedEnvironments : InitGuardedWith(env, MaxGuardedRequests)
  \/ \E env \in UnguardedEnvironments : InitGuardedWith(env, MaxUnlimitedRequests)

NextGuarded ==
  \/ Step(1)
  \/ \E id \in Ids : RunHandler(1, id)
  \/ Respond(1)
  \/ \E op \in Mutations, type \in Types, id \in Ids : CrudBegin(1, op, type, id)
  \/ PersistWrite(1)
  \/ DelDetail(1)
  \/ DelList(1)
  \/ CrudCacheError(1)

SpecGuarded == InitGuarded /\ [][NextGuarded]_vars

\* The redisService.del calls of a mutating handler: UserController.create has
\* none, ProductController.create one (the list key), update and remove two.
Invalidations(op, type) ==
  CASE op = "create" /\ type = "users" -> 0
    [] op = "create"                   -> 1
    [] OTHER                           -> 2

C29_SucceededIsTerminal ==
  [][\A pi \in Intents :
       paymentModel[pi].status = "succeeded" => paymentModel'[pi].status = "succeeded"]_vars

\* C30: for each payment that succeeds the product's stockQuantity is reduced
\* exactly once and by exactly the quantity requested in createPaymentIntent,
\* whichever of the success paths has run for it (confirmPayment returning
\* 'succeeded', the payment_intent.succeeded event, or both); a payment that
\* does not succeed reduces no stock.
C30_StockReducedOnce ==
  \A pi \in Intents :
    LET p == paymentModel[pi]
    IN  p.exists =>
          /\ p.intent = "succeeded" => p.reduced = p.requested
          /\ p.intent # "succeeded" => p.reduced = 0

====
